---------------------------- MODULE Spec2Model ----------------------------
(* ProjectZipper (src/main.py): the tree-diagram parser and the hierarchy  *)
(* builder.  A string is a sequence of one-character strings.  The four    *)
(* box-drawing glyphs are written with ASCII stand-ins:                    *)
(*   BoxV  "|"  for U+2502,  BoxVR "+"  for U+251C,                        *)
(*   BoxUR "^"  for U+2514,  BoxH  "-"  for U+2500.                        *)
EXTENDS Integers, Sequences, FiniteSets, TLC

VARIABLES
    pc,            \* position in parse_and_zip_project / the function under study
    tree_lines,    \* parse_tree_structure: its argument
    i,             \* parse_tree_structure: index (1-based) of the next line of the for loop
    root_name,     \* parse_tree_structure / build_hierarchy: root_name
    parsed_items,  \* parse_tree_structure: parsed_items; build_hierarchy: its argument
    j,             \* build_hierarchy: index (1-based) of the next record of the for loop
    hierarchy,     \* build_hierarchy: hierarchy, entries [full_path, is_directory]
    stack,         \* build_hierarchy: stack, entries [path, depth]
    nest,          \* history: for each record processed, len(stack) after the while loop
    line,          \* calculate_depth: its argument
    depth,         \* calculate_depth: its result (-1 before the call)
    name,          \* is_item_directory: its argument
    is_directory   \* is_item_directory: its result ("none" before the call)

vars == <<pc, tree_lines, i, root_name, parsed_items, j, hierarchy, stack, nest,
          line, depth, name, is_directory>>

-----------------------------------------------------------------------------
(* Characters *)

BoxV == "|"

BoxVR == "+"

BoxUR == "^"

BoxH == "-"

Space == " "

Tab == "\t"

Slash == "/"

Dot == "."

\* str.strip() / str.rstrip() with no argument remove whitespace
Whitespace == {Space, Tab}

\* the list of extract_clean_name
StructuralChars == {Space, BoxV, BoxVR, BoxUR, BoxH, Tab}

\* the literal "project"
DefaultRoot == <<"p", "r", "o", "j", "e", "c", "t">>

-----------------------------------------------------------------------------
(* Python string primitives *)

\* s[k:] with k a 0-based index
DropFirst(s, k) == SubSeq(s, k + 1, Len(s))

RECURSIVE rstrip(_)
rstrip(s) ==
    IF s = <<>> THEN <<>>
    ELSE IF s[Len(s)] \in Whitespace THEN rstrip(SubSeq(s, 1, Len(s) - 1))
    ELSE s

RECURSIVE lstrip(_)
lstrip(s) ==
    IF s = <<>> THEN <<>>
    ELSE IF s[1] \in Whitespace THEN lstrip(Tail(s))
    ELSE s

strip(s) == rstrip(lstrip(s))

\* s.startswith(p, k) with k a 0-based index
startswith(s, p, k) ==
    /\ k + Len(p) <= Len(s)
    /\ SubSeq(s, k + 1, k + Len(p)) = p

endswith(s, p) ==
    /\ Len(p) <= Len(s)
    /\ SubSeq(s, Len(s) - Len(p) + 1, Len(s)) = p

\* s.replace(p, empty): the non-overlapping occurrences of p, left to right
RECURSIVE remove(_, _)
remove(s, p) ==
    IF s = <<>> THEN <<>>
    ELSE IF startswith(s, p, 0) THEN remove(DropFirst(s, Len(p)), p)
    ELSE <<s[1]>> \o remove(Tail(s), p)

\* s.split('/')[-1]
RECURSIVE LastSegment(_)
LastSegment(s) ==
    IF s = <<>> THEN <<>>
    ELSE IF s[Len(s)] = Slash THEN <<>>
    ELSE Append(LastSegment(SubSeq(s, 1, Len(s) - 1)), s[Len(s)])

-----------------------------------------------------------------------------
(* The line decomposer *)

\* extract_root_name
extract_root_name(first_line) ==
    LET s0 == strip(first_line)
        s1 == remove(s0, <<BoxV>>)
        s2 == remove(s1, <<BoxVR>>)
        s3 == remove(s2, <<BoxUR>>)
        s4 == remove(s3, <<BoxH, BoxH>>)
        s5 == remove(s4, <<Space>>)
        s6 == IF endswith(s5, <<Slash>>) THEN SubSeq(s5, 1, Len(s5) - 1) ELSE s5
    IN  IF s6 # <<>> THEN s6 ELSE DefaultRoot

\* calculate_depth with a BoxV counted as one unit of depth
RECURSIVE depth_scan_bar(_, _, _)
depth_scan_bar(l, k, d) ==
    IF ~(k < Len(l)) THEN d
    ELSE IF l[k + 1] \in {Space, Tab} THEN depth_scan_bar(l, k + 1, d)
    ELSE IF \/ startswith(l, <<BoxVR, BoxH, BoxH>>, k)
            \/ startswith(l, <<BoxUR, BoxH, BoxH>>, k)
         THEN depth_scan_bar(l, k + 3, d + 1)
    ELSE IF l[k + 1] = BoxV THEN depth_scan_bar(l, k + 1, d + 1)
    ELSE d

\* calculate_depth: the while loop from index k (0-based) with depth d
RECURSIVE depth_scan(_, _, _)
depth_scan(l, k, d) ==
    IF ~(k < Len(l)) THEN d
    ELSE IF l[k + 1] \in {Space, Tab} THEN depth_scan(l, k + 1, d)
    ELSE IF \/ startswith(l, <<BoxVR, BoxH, BoxH>>, k)
            \/ startswith(l, <<BoxUR, BoxH, BoxH>>, k)
         THEN depth_scan(l, k + 3, d + 1)
    ELSE IF l[k + 1] = BoxV THEN depth_scan(l, k + 1, d)
    ELSE d

calculate_depth_bar(l) == depth_scan_bar(l, 0, 0)

calculate_depth(l) == depth_scan(l, 0, 0)

\* extract_clean_name: the for loop, name_start stays 0 when no character breaks
name_start(l) ==
    IF \E k \in 1..Len(l) : l[k] \notin StructuralChars
    THEN (CHOOSE k \in 1..Len(l) :
              /\ l[k] \notin StructuralChars
              /\ \A m \in 1..(k - 1) : l[m] \in StructuralChars) - 1
    ELSE 0

extract_clean_name(l) == strip(DropFirst(l, name_start(l)))

\* the set literal of is_item_directory
directory_names ==
    { <<"s", "r", "c">>,
      <<"d", "i", "s", "t">>,
      <<"e", "x", "a", "m", "p", "l", "e", "s">>,
      <<"t", "e", "s", "t">>,
      <<"d", "o", "c", "s">>,
      <<"f", "i", "x", "t", "u", "r", "e", "s">>,
      <<"w", "o", "r", "k", "f", "l", "o", "w", "s">>,
      <<"I", "S", "S", "U", "E", "_", "T", "E", "M", "P", "L", "A", "T", "E">>,
      <<".", "g", "i", "t", "h", "u", "b">> }

\* is_item_directory without the test of directory_names
is_item_directory_no_names(n) ==
    IF endswith(n, <<Slash>>) THEN TRUE
    ELSE IF \A k \in 1..Len(LastSegment(n)) : LastSegment(n)[k] # Dot THEN TRUE
    ELSE FALSE

\* is_item_directory
is_item_directory(n) ==
    IF endswith(n, <<Slash>>) THEN TRUE
    ELSE IF n \in directory_names THEN TRUE
    ELSE IF \A k \in 1..Len(LastSegment(n)) : LastSegment(n)[k] # Dot THEN TRUE
    ELSE FALSE

-----------------------------------------------------------------------------
(* The hierarchy builder *)

\* the while loop with >= for >
RECURSIVE pop_while_ge(_, _)
pop_while_ge(stk, d) ==
    IF Len(stk) >= d /\ stk # <<>>
    THEN pop_while_ge(SubSeq(stk, 1, Len(stk) - 1), d)
    ELSE stk

\* the while loop with depth + 1 for depth
RECURSIVE pop_while_late(_, _)
pop_while_late(stk, d) ==
    IF Len(stk) > d + 1 THEN pop_while_late(SubSeq(stk, 1, Len(stk) - 1), d)
    ELSE stk

\* build_hierarchy: while len(stack) > depth: stack.pop()
RECURSIVE pop_while(_, _)
pop_while(stk, d) ==
    IF Len(stk) > d THEN pop_while(SubSeq(stk, 1, Len(stk) - 1), d)
    ELSE stk

\* the full path with stack[0] for stack[-1]
full_path_bottom(stk, root, n) ==
    IF stk # <<>> THEN stk[1].path \o <<Slash>> \o n
    ELSE root \o <<Slash>> \o n

\* build_hierarchy: the full path of a record under the stack left by the pops
full_path(stk, root, n) ==
    IF stk # <<>> THEN stk[Len(stk)].path \o <<Slash>> \o n
    ELSE root \o <<Slash>> \o n

\* build_hierarchy: one iteration of the for loop, on record rec
BuildBody(rec) ==
    LET stk == pop_while(stack, rec.depth)
        fp  == full_path(stk, root_name, rec.name)
    IN  /\ hierarchy' = Append(hierarchy, [full_path |-> fp,
                                           is_directory |-> rec.is_directory])
        /\ stack' = IF rec.is_directory
                    THEN Append(stk, [path |-> fp, depth |-> rec.depth])
                    ELSE stk
        /\ nest' = Append(nest, Len(stk))

-----------------------------------------------------------------------------
(* Bounds and input sets *)

MaxLineLen == 5

MaxParts == 3

MaxLines == 2

MaxItems == 3

MaxDepth == 2

SeqsUpTo(S, n) == UNION {[1..m -> S] : m \in 0..n}

\* the characters the lines given to calculate_depth are made of
DepthAlphabet == {Space, Tab, BoxV, BoxVR, BoxUR, BoxH, "a"}

DepthLines == SeqsUpTo(DepthAlphabet, MaxLineLen)

\* the pieces the names given to is_item_directory are made of
NamePieces ==
    { <<"s", "r", "c">>,
      <<"S", "r", "c">>,
      <<".", "g", "i", "t", "h", "u", "b">>,
      <<"D", "o", "c", "k", "e", "r", "f", "i", "l", "e">>,
      <<"R", "E", "A", "D", "M", "E">>,
      <<".", "m", "d">>,
      <<Slash>> }

RECURSIVE Concats(_)
Concats(n) ==
    IF n = 0 THEN {<<>>}
    ELSE Concats(n - 1) \cup {p \o q : p \in Concats(n - 1), q \in NamePieces}

DirNames == Concats(MaxParts)

-----------------------------------------------------------------------------
(* calculate_depth on its own *)

InitDepth ==
    /\ pc = "depth_call"
    /\ line \in DepthLines
    /\ depth = -1
    /\ tree_lines = <<>> /\ i = 0 /\ root_name = <<>> /\ parsed_items = <<>>
    /\ j = 0 /\ hierarchy = <<>> /\ stack = <<>> /\ nest = <<>>
    /\ name = <<>> /\ is_directory = "none"

CalculateDepth ==
    /\ pc = "depth_call"
    /\ depth' = calculate_depth(line)
    /\ pc' = "depth_ret"
    /\ UNCHANGED <<tree_lines, i, root_name, parsed_items, j, hierarchy, stack,
                   nest, line, name, is_directory>>

NextDepth == CalculateDepth

SpecDepth == InitDepth /\ [][NextDepth]_vars

-----------------------------------------------------------------------------
(* is_item_directory on its own *)

InitDir ==
    /\ pc = "dir_call"
    /\ name \in DirNames
    /\ is_directory = "none"
    /\ tree_lines = <<>> /\ i = 0 /\ root_name = <<>> /\ parsed_items = <<>>
    /\ j = 0 /\ hierarchy = <<>> /\ stack = <<>> /\ nest = <<>>
    /\ line = <<>> /\ depth = -1

IsItemDirectory ==
    /\ pc = "dir_call"
    /\ is_directory' = is_item_directory(name)
    /\ pc' = "dir_ret"
    /\ UNCHANGED <<tree_lines, i, root_name, parsed_items, j, hierarchy, stack,
                   nest, line, depth, name>>

NextDir == IsItemDirectory

SpecDir == InitDir /\ [][NextDir]_vars

-----------------------------------------------------------------------------
(* parse_and_zip_project: parse_tree_structure, then build_hierarchy *)

LinePrefixes ==
    { <<>>,
      <<Space>>,
      <<BoxV, Space>>,
      <<BoxVR, BoxH, BoxH, Space>> }

LineBodies ==
    { <<>>,
      <<"a">>,
      <<"a", Slash>>,
      <<"b", Dot, "c">> }

TreeLines == {p \o b : p \in LinePrefixes, b \in LineBodies}

Init ==
    /\ pc = "parse_call"
    /\ tree_lines \in SeqsUpTo(TreeLines, MaxLines)
    /\ i = 0
    /\ root_name = <<>>
    /\ parsed_items = <<>>
    /\ j = 0
    /\ hierarchy = <<>>
    /\ stack = <<>>
    /\ nest = <<>>
    /\ line = <<>> /\ depth = -1 /\ name = <<>> /\ is_directory = "none"

\* parse_tree_structure: if not tree_lines: return "project", []
ParseEmpty ==
    /\ pc = "parse_call"
    /\ tree_lines = <<>>
    /\ root_name' = DefaultRoot
    /\ parsed_items' = <<>>
    /\ pc' = "build_call"
    /\ UNCHANGED <<tree_lines, i, j, hierarchy, stack, nest,
                   line, depth, name, is_directory>>

\* parse_tree_structure: the root name from the first line
ParseStart ==
    /\ pc = "parse_call"
    /\ tree_lines # <<>>
    /\ root_name' = extract_root_name(strip(tree_lines[1]))
    /\ parsed_items' = <<>>
    /\ i' = 1
    /\ pc' = "parse_loop"
    /\ UNCHANGED <<tree_lines, j, hierarchy, stack, nest,
                   line, depth, name, is_directory>>

\* parse_tree_structure: one iteration of the for loop
ParseLine ==
    /\ pc = "parse_loop"
    /\ i <= Len(tree_lines)
    /\ LET l          == rstrip(tree_lines[i])
           d          == calculate_depth(l)
           clean_name == extract_clean_name(l)
       IN  parsed_items' =
               IF l = <<>> THEN parsed_items
               ELSE IF clean_name = <<>> THEN parsed_items
               ELSE IF d = 0 /\ clean_name = root_name THEN parsed_items
               ELSE Append(parsed_items,
                           [name |-> clean_name, depth |-> d,
                            is_directory |-> is_item_directory(clean_name)])
    /\ i' = i + 1
    /\ UNCHANGED <<pc, tree_lines, root_name, j, hierarchy, stack, nest,
                   line, depth, name, is_directory>>

\* parse_tree_structure: return root_name, parsed_items
ParseReturn ==
    /\ pc = "parse_loop"
    /\ i > Len(tree_lines)
    /\ pc' = "build_call"
    /\ UNCHANGED <<tree_lines, i, root_name, parsed_items, j, hierarchy, stack,
                   nest, line, depth, name, is_directory>>

\* build_hierarchy without the root directory entry
BuildStart_NoRoot ==
    /\ pc = "build_call"
    /\ hierarchy' = <<>>
    /\ stack' = <<>>
    /\ nest' = <<>>
    /\ j' = 1
    /\ pc' = "build_loop"
    /\ UNCHANGED <<tree_lines, i, root_name, parsed_items,
                   line, depth, name, is_directory>>

\* build_hierarchy: the root directory entry, the empty stack
BuildStart ==
    /\ pc = "build_call"
    /\ hierarchy' = << [full_path |-> root_name \o <<Slash>>, is_directory |-> TRUE] >>
    /\ stack' = <<>>
    /\ nest' = <<>>
    /\ j' = 1
    /\ pc' = "build_loop"
    /\ UNCHANGED <<tree_lines, i, root_name, parsed_items,
                   line, depth, name, is_directory>>

\* build_hierarchy: one iteration of the for loop
BuildStep ==
    /\ pc = "build_loop"
    /\ j <= Len(parsed_items)
    /\ BuildBody(parsed_items[j])
    /\ j' = j + 1
    /\ UNCHANGED <<pc, tree_lines, i, root_name, parsed_items,
                   line, depth, name, is_directory>>

\* build_hierarchy: return hierarchy
BuildReturn ==
    /\ pc = "build_loop"
    /\ j > Len(parsed_items)
    /\ pc' = "done"
    /\ UNCHANGED <<tree_lines, i, root_name, parsed_items, j, hierarchy, stack,
                   nest, line, depth, name, is_directory>>

Next ==
    \/ ParseEmpty
    \/ ParseStart
    \/ ParseLine
    \/ ParseReturn
    \/ BuildStart
    \/ BuildStep
    \/ BuildReturn

Spec == Init /\ [][Next]_vars

-----------------------------------------------------------------------------
(* build_hierarchy on its own, on every sequence of records *)

RecordNames == { <<"a">>, <<"b", Slash>>, <<"a", Slash, "b">> }

Records ==
    [name : RecordNames, depth : 0..MaxDepth, is_directory : BOOLEAN]

InitBuild ==
    /\ pc = "build_loop"
    /\ root_name = <<"r">>
    /\ parsed_items = <<>>
    /\ j = 1
    /\ hierarchy = << [full_path |-> root_name \o <<Slash>>, is_directory |-> TRUE] >>
    /\ stack = <<>>
    /\ nest = <<>>
    /\ tree_lines = <<>> /\ i = 0
    /\ line = <<>> /\ depth = -1 /\ name = <<>> /\ is_directory = "none"

\* the for loop takes the next record of its argument
BuildNext ==
    /\ pc = "build_loop"
    /\ Len(parsed_items) < MaxItems
    /\ \E rec \in Records :
           /\ parsed_items' = Append(parsed_items, rec)
           /\ BuildBody(rec)
    /\ j' = j + 1
    /\ UNCHANGED <<pc, tree_lines, i, root_name, line, depth, name, is_directory>>

NextBuild == BuildNext

SpecBuild == InitBuild /\ [][NextBuild]_vars

-----------------------------------------------------------------------------
(* Properties of calculate_depth *)

\* the characters before the first name character
StructuralPrefix(l) ==
    IF \E k \in 1..Len(l) : l[k] \notin StructuralChars
    THEN SubSeq(l, 1, name_start(l))
    ELSE l

Count(s, C) == Cardinality({k \in 1..Len(s) : s[k] \in C})

\* every BoxVR and BoxUR of the prefix is followed by two BoxH, and the prefix
\* has no other BoxH
ConnectorsComplete(s) ==
    /\ \A k \in 1..Len(s) :
           s[k] \in {BoxVR, BoxUR} =>
               /\ k + 2 <= Len(s)
               /\ s[k + 1] = BoxH
               /\ s[k + 2] = BoxH
    /\ Count(s, {BoxH}) = 2 * Count(s, {BoxVR, BoxUR})

-----------------------------------------------------------------------------
(* Properties of is_item_directory *)

Lower(c) ==
    CASE c = "S" -> "s"
      [] c = "D" -> "d"
      [] c = "R" -> "r"
      [] c = "E" -> "e"
      [] c = "A" -> "a"
      [] c = "M" -> "m"
      [] c = "I" -> "i"
      [] c = "U" -> "u"
      [] c = "T" -> "t"
      [] c = "P" -> "p"
      [] c = "L" -> "l"
      [] OTHER -> c

lower(s) == [k \in 1..Len(s) |-> Lower(s[k])]

\* no "." after the last "/"
NoDotInLastSegment(n) ==
    \A k \in 1..Len(n) : n[k] = Dot => \E m \in (k + 1)..Len(n) : n[m] = Slash

\* C7 (as claimed): is_item_directory is true exactly when the name ends with
\* "/", or its last segment has no ".", or the name compared case-insensitively
\* equals or is prefixed by one of the directory tokens.
C7_TokenPrefix ==
    pc = "dir_ret" =>
        (is_directory <=>
            \/ endswith(name, <<Slash>>)
            \/ NoDotInLastSegment(name)
            \/ \E t \in directory_names : startswith(lower(name), lower(t), 0))

\* C7 (amended): is_item_directory is true exactly when the name ends with "/",
\* or its last segment has no ".", or the name is, case-sensitively and as a
\* whole, one of the directory tokens.
C7_TokenExact ==
    pc = "dir_ret" =>
        (is_directory <=>
            \/ endswith(name, <<Slash>>)
            \/ NoDotInLastSegment(name)
            \/ name \in directory_names)

C7_Witness ==
    /\ pc = "dir_ret"
    /\ name = <<".", "g", "i", "t", "h", "u", "b">>
    /\ is_directory = TRUE

-----------------------------------------------------------------------------
(* Properties of build_hierarchy *)

\* the records the for loop has processed, and the entry emitted from the k-th
Processed == SubSeq(parsed_items, 1, Len(nest))

EntryOf(k) == hierarchy[k + 1]

\* the parent path of the entry of record k: its full_path without "/" + name
ParentOf(k) ==
    SubSeq(EntryOf(k).full_path, 1,
           Len(EntryOf(k).full_path) - Len(Processed[k].name) - 1)

\* the full_path of record k with the root_name prefix and its "/" set aside
RelPath(k) == DropFirst(EntryOf(k).full_path, Len(root_name) + 1)

\* the number of "/"-separated segments
Segments(s) == Count(s, {Slash}) + 1

MaxOf(S) == IF S = {} THEN 0 ELSE CHOOSE x \in S : \A y \in S : y <= x

LargestDepth == MaxOf({Processed[k].depth : k \in 1..Len(Processed)})

\* C1: of two consecutive records of the same depth whose first is a directory,
\* the second does not nest under the first and both have the same parent path.
C1_SiblingsShareParent ==
    \A k \in 1..(Len(Processed) - 1) :
        (/\ Processed[k].is_directory
         /\ Processed[k + 1].depth = Processed[k].depth) =>
            /\ ParentOf(k + 1) # EntryOf(k).full_path
            /\ ParentOf(k + 1) = ParentOf(k)

\* C2: every entry emitted from a record deeper than an earlier directory record,
\* with no record at or above the directory's depth in between, has a full_path
\* that begins with the directory's full_path followed by "/".
C2_DeeperNestsUnder ==
    \A k \in 1..Len(Processed) : \A m \in (k + 1)..Len(Processed) :
        (/\ Processed[k].is_directory
         /\ \A n \in (k + 1)..m : Processed[n].depth > Processed[k].depth) =>
            startswith(EntryOf(m).full_path,
                       EntryOf(k).full_path \o <<Slash>>, 0)

C2_Witness ==
    /\ Len(Processed) = 3
    /\ Processed[1].is_directory /\ Processed[1].depth = 0
    /\ Processed[2].is_directory /\ Processed[2].depth = 1
    /\ Processed[3].depth = 2
    /\ startswith(EntryOf(3).full_path, EntryOf(1).full_path \o <<Slash>>, 0)

\* C5 (as claimed): the full_path of every record, root_name prefix set aside,
\* has depth + 1 segments.
C5_SegmentsEqualDepth ==
    \A k \in 1..Len(Processed) : Segments(RelPath(k)) = Processed[k].depth + 1

NoSlashInNames ==
    \A k \in 1..Len(Processed) : Count(Processed[k].name, {Slash}) = 0

\* C5 (amended): the full_path of every record, root_name prefix set aside, has
\* at least as many segments as the stack has entries after the pops plus the
\* segments of the name, and the stack then has at most depth entries; when no
\* name has a "/", the number of segments is the number of stack entries plus one.
C5_SegmentsFollowStack ==
    \A k \in 1..Len(Processed) :
        /\ nest[k] <= Processed[k].depth
        /\ Segments(RelPath(k)) >= nest[k] + Segments(Processed[k].name)
        /\ NoSlashInNames => Segments(RelPath(k)) = nest[k] + 1

C5_Witness ==
    /\ Len(Processed) = 3
    /\ NoSlashInNames
    /\ nest[3] = 2
    /\ Processed[1].depth = 2
    /\ Segments(RelPath(1)) = 1
    /\ Segments(RelPath(3)) = 3

\* C8: the depths of the stack entries increase strictly from bottom to top.
C8_StackDepthsIncrease ==
    \A a \in 1..Len(stack) : \A b \in (a + 1)..Len(stack) :
        stack[a].depth < stack[b].depth

\* C10 (as claimed): the stack is never longer than the largest depth among the
\* records processed so far.
C10_StackWithinDepth == Len(stack) <= LargestDepth

\* C10 (amended): the stack is never longer than one more than the largest depth
\* among the records processed so far.
C10_StackWithinDepthPlusOne == Len(stack) <= LargestDepth + 1

C10_Witness ==
    /\ Len(Processed) >= 1
    /\ Processed[Len(Processed)].is_directory
    /\ Processed[Len(Processed)].depth = 0
    /\ Len(stack) = 1

-----------------------------------------------------------------------------
(* Properties of parse_tree_structure followed by build_hierarchy *)

OnlyStructural(l) == \A k \in 1..Len(l) : l[k] \in StructuralChars

\* C4: the loop iteration on a line made only of structural characters leaves
\* parsed_items as it was.
C4_StructuralLineSkipped ==
    [][(/\ pc = "parse_loop"
        /\ i <= Len(tree_lines)
        /\ OnlyStructural(tree_lines[i])) => parsed_items' = parsed_items]_vars

\* the first line is the root line: depth 0, the root name with or without "/"
FirstLineIsRoot ==
    /\ tree_lines # <<>>
    /\ calculate_depth(rstrip(tree_lines[1])) = 0
    /\ extract_clean_name(rstrip(tree_lines[1]))
           \in {root_name, root_name \o <<Slash>>}

\* C9: when the first line is the root line, parsed_items holds no record for
\* it once the loop has passed it.
C9_RootLineSkipped ==
    (pc = "parse_loop" /\ i = 2 /\ FirstLineIsRoot) => parsed_items = <<>>

NoNonBlankLine ==
    \A k \in 1..Len(tree_lines) :
        \A m \in 1..Len(tree_lines[k]) : tree_lines[k][m] \in Whitespace

\* C6 (as claimed): an input with no non-blank line yields a hierarchy with no
\* entries.
C6_EmptyHierarchy ==
    (pc = "done" /\ NoNonBlankLine) => hierarchy = <<>>

\* C6 (amended): an input with no non-blank line yields the root name "project",
\* no record, and a hierarchy whose only entry is the root directory "project/".
C6_RootOnlyHierarchy ==
    (pc = "done" /\ NoNonBlankLine) =>
        /\ root_name = DefaultRoot
        /\ parsed_items = <<>>
        /\ hierarchy = << [full_path |-> DefaultRoot \o <<Slash>>,
                           is_directory |-> TRUE] >>

C6_Witness ==
    /\ pc = "done"
    /\ tree_lines = << <<>> >>
    /\ Len(hierarchy) = 1

=============================================================================
